---- MODULE Spec2Model ----
(***************************************************************************)
(* A model of app.py, the Bluesky data visualizer: the process-wide        *)
(* access_token, the POST /generate handler (generate_charts) with the     *)
(* helpers it calls, and the two chart generators.                         *)
(*                                                                         *)
(* Python values.  A str is a sequence of tokens (the link is cut at its   *)
(* "/" characters, every "/" being a token of its own), so that strip()    *)
(* and the two regular expressions are computed on it; "" is << >> and     *)
(* None is the one-token sequence None.  A dict is a function from its     *)
(* keys.  A timestamp "<y>-<m>-<d>T<h>..." is a record of the text before  *)
(* the "T" (the three numbers of the date) and of the text after it.       *)
(***************************************************************************)
EXTENDS Integers, Sequences, FiniteSets, TLC

VARIABLES
    access_token,   \* the module global of line 23
    static,         \* the two image files static/<kind>_chart.png
    pc,             \* per worker thread: where its request stands
    data,           \* per thread: request.json
    did,            \* per thread: local did
    handle,         \* per thread: local handle
    post_id,        \* per thread: local post_id
    headers,        \* per thread: the bearer put in the Authorization header (line 288)
    reposts,        \* per thread: local reposts
    likes,          \* per thread: local likes
    response,       \* per thread: what the handler returned (status, JSON body)
    calls,          \* per thread: the remote calls this request has sent so far
    rendered        \* per thread: the charts this request has drawn (generate_chart)

vars == <<access_token, static, pc, data, did, handle, post_id, headers,
          reposts, likes, response, calls, rendered>>

locals == <<data, did, handle, post_id, headers, reposts, likes>>

Threads == {"w1", "w2"}

----------------------------------------------------------------------------
(* Bounds of the model *)

\* longest engagement collection an endpoint returns, request pipeline
MaxEvents == 1
\* longest engagement collection handed to the chart generators alone
MaxStamps == 3

----------------------------------------------------------------------------
(* Python values *)

None == <<"<None>">>
EmptyStr == << >>

\* Python truthiness of an optional str: `if not access_token`, `if did`
Truthy(x) == x # None /\ x # EmptyStr

EmptyDict == << >>

Has(dict, key) == key \in DOMAIN dict

\* dict.get(key) and dict.get(key, default)
Get(dict, key, default) == IF Has(dict, key) THEN dict[key] ELSE default

\* all sequences over S of length at most n
SeqUpTo(S, n) == UNION {[1..k -> S] : k \in 0..n}

----------------------------------------------------------------------------
(* Links: str.strip() and the two regular expressions of lines 273 and 276 *)

RECURSIVE LStrip(_)
LStrip(s) == IF s # << >> /\ Head(s) = " " THEN LStrip(Tail(s)) ELSE s

RECURSIVE RStrip(_)
RStrip(s) ==
    IF s # << >> /\ s[Len(s)] = " " THEN RStrip(SubSeq(s, 1, Len(s) - 1)) ELSE s

Strip(s) == RStrip(LStrip(s))

\* [^/]+ at position i: the number of tokens the greedy run takes (0: no match)
RECURSIVE Run(_, _)
Run(s, i) == IF i <= Len(s) /\ s[i] # "/" THEN 1 + Run(s, i + 1) ELSE 0

\* https?://bsky\.app/profile/ matched at the start of s (re.match anchors there)
ProfilePrefix(s) ==
    /\ Len(s) >= 7
    /\ s[1] \in {"http:", "https:"}
    /\ s[2] = "/" /\ s[3] = "/"
    /\ s[4] = "bsky.app"
    /\ s[5] = "/" /\ s[6] = "profile" /\ s[7] = "/"

\* /post/([^/]+) matched at position i; what follows the group is not looked at
PostSuffix(s, i) ==
    /\ Len(s) >= i + 3
    /\ s[i] = "/" /\ s[i + 1] = "post" /\ s[i + 2] = "/"
    /\ Run(s, i + 3) >= 1

PostGroup(s, i) == SubSeq(s, i + 3, i + 2 + Run(s, i + 3))

NoMatch == [matched |-> FALSE, groups |-> << >>]

\* re.match(r"https?://bsky\.app/profile/(did:[^/]+)/post/([^/]+)", link)
DidInProfileMatch(s) ==
    IF /\ ProfilePrefix(s)
       /\ Len(s) >= 9
       /\ s[8] = "did:"
       /\ Run(s, 9) >= 1
       /\ PostSuffix(s, 9 + Run(s, 9))
    THEN [matched |-> TRUE,
          groups  |-> <<SubSeq(s, 8, 8 + Run(s, 9)), PostGroup(s, 9 + Run(s, 9))>>]
    ELSE NoMatch

AcceptAnyProfile(s) ==
    IF ProfilePrefix(s) /\ Run(s, 8) >= 1
    THEN [matched |-> TRUE, groups |-> <<SubSeq(s, 8, 7 + Run(s, 8)), <<"p1">>>>]
    ELSE NoMatch

\* re.match(r"https?://bsky\.app/profile/([^/]+)/post/([^/]+)", link)
WebMatch(s) ==
    IF /\ ProfilePrefix(s)
       /\ Run(s, 8) >= 1
       /\ PostSuffix(s, 8 + Run(s, 8))
    THEN [matched |-> TRUE,
          groups  |-> <<SubSeq(s, 8, 7 + Run(s, 8)), PostGroup(s, 8 + Run(s, 8))>>]
    ELSE NoMatch

----------------------------------------------------------------------------
(* The links a client submits *)

Root(scheme, host) == <<scheme, "/", "/", host, "/", "profile", "/">>

HandleLink   == Root("https:", "bsky.app") \o <<"alice.test", "/", "post", "/", "p1">>
DidLink      == Root("https:", "bsky.app") \o <<"did:", "plc:a", "/", "post", "/", "p1">>
HttpLink     == Root("http:", "bsky.app") \o <<"alice.test", "/", "post", "/", "p1">>
PaddedLink   == <<" ">> \o HandleLink \o <<" ">>
LongerLink   == HandleLink \o <<"/", "liked-by">>
BareDidLink  == Root("https:", "bsky.app") \o <<"did:", "/", "post", "/", "p1">>
NoPostLink   == Root("https:", "bsky.app") \o <<"alice.test">>
NoPostIdLink == Root("https:", "bsky.app") \o <<"alice.test", "/", "post", "/">>
FtpLink      == Root("ftp:", "bsky.app") \o <<"alice.test", "/", "post", "/", "p1">>
AtLink       == <<"at:", "/", "/", "did:", "plc:a", "/", "app.bsky.feed.post", "/", "p1">>

\* links with the /post/<id> suffix and a supported scheme
ValidLinks == {HandleLink, DidLink, HttpLink, PaddedLink, LongerLink, BareDidLink}

\* links that lack the /post/<id> suffix or use an unsupported scheme
MalformedLinks == {NoPostLink, NoPostIdLink, FtpLink, AtLink}

Links == ValidLinks \cup MalformedLinks

\* request.json: an empty object, an object without "link", an object with it
Bodies == {EmptyDict, [url |-> HandleLink]} \cup {[link |-> l] : l \in Links}

----------------------------------------------------------------------------
(* Engagement records and their timestamps *)

Stamp(y, m, d, h) == [date |-> <<y, m, d>>, time |-> h]

\* a record of "likes" / "repostedBy": indexedAt may be missing
WithStamp(ts) == [actor |-> <<"bob.test">>, indexedAt |-> ts]
NoStamp == [actor |-> <<"bob.test">>]

\* the records the endpoints return in the request pipeline
Events == {NoStamp, WithStamp(Stamp(2024, 1, 1, 10))}

\* the records handed to the chart generators alone
ChartEvents ==
    {NoStamp} \cup
    {WithStamp(ts) : ts \in {Stamp(2024, 1, 1, 10), Stamp(2024, 1, 1, 23),
                             Stamp(2024, 1, 2, 0), Stamp(2023, 12, 31, 23)}}

\* [x["indexedAt"] for x in coll if "indexedAt" in x]   (lines 132 and 304)
RECURSIVE IndexedAt(_)
IndexedAt(coll) ==
    IF coll = << >> THEN << >>
    ELSE IF Has(Head(coll), "indexedAt")
         THEN <<Head(coll).indexedAt>> \o IndexedAt(Tail(coll))
         ELSE IndexedAt(Tail(coll))

----------------------------------------------------------------------------
(* The chart generators, lines 85-149 *)

\* ts.split("T")[0]: the text before the first "T"
SplitT(ts) == ts.date

\* datetime.fromisoformat of a date-only text: that day at midnight
FromIsoFormat(d) == [year |-> d[1], month |-> d[2], day |-> d[3], hour |-> 0]

\* the order of datetime objects
DatetimeLess(a, b) ==
    \/ a.year < b.year
    \/ a.year = b.year /\ a.month < b.month
    \/ a.year = b.year /\ a.month = b.month /\ a.day < b.day
    \/ a.year = b.year /\ a.month = b.month /\ a.day = b.day /\ a.hour < b.hour

\* [datetime.fromisoformat(ts.split("T")[0]) for ts in timestamps]
Dates(timestamps) ==
    [i \in 1..Len(timestamps) |-> FromIsoFormat(SplitT(timestamps[i]))]

\* Counter(dates)[d]
Count(dates, d) == Cardinality({i \in 1..Len(dates) : dates[i] = d})

\* Counter(dates).keys(): each date once, in the order first met
RECURSIVE CounterKeys(_)
CounterKeys(dates) ==
    IF dates = << >> THEN << >>
    ELSE LET rest == CounterKeys(SubSeq(dates, 1, Len(dates) - 1))
             last == dates[Len(dates)]
         IN  IF \E i \in 1..Len(rest) : rest[i] = last
             THEN rest ELSE Append(rest, last)

RECURSIVE InsertSorted(_, _)
InsertSorted(x, s) ==
    IF s = << >> THEN <<x>>
    ELSE IF DatetimeLess(x, Head(s)) THEN <<x>> \o s
         ELSE <<Head(s)>> \o InsertSorted(x, Tail(s))

RECURSIVE SortAscending(_)
SortAscending(keys) ==
    IF keys = << >> THEN << >>
    ELSE InsertSorted(keys[Len(keys)], SortAscending(SubSeq(keys, 1, Len(keys) - 1)))

KeepOrder(keys) == keys

\* sorted(date_counts.keys())
Sorted(keys) == SortAscending(keys)

\* [date_counts[date] for date in sorted_dates]
Counts(dates, sorted_dates) ==
    [i \in 1..Len(sorted_dates) |-> Count(dates, sorted_dates[i])]

NoFile == [written |-> FALSE]

\* generate_chart: the image saved at chart_image_path
generate_chart(colors, title, dates, counts) ==
    [written |-> TRUE, colors |-> colors, title |-> title,
     dates |-> dates, counts |-> counts]

\* f"https://bsky.app/profile/{handle}/post/{post_id}"   (line 303)
PostLink(h, p) == Root("https:", "bsky.app") \o h \o <<"/", "post", "/">> \o p

\* generate_likes_chart: the file it writes to static/likes_chart.png
generate_likes_chart(h, like_timestamps, post_link) ==
    LET dates == Dates(like_timestamps)
        sorted_dates == Sorted(CounterKeys(dates))
        counts == Counts(dates, sorted_dates)
    IN  generate_chart([i \in 1..Len(sorted_dates) |-> "#ff69b4"],
                       <<"Likes Over Time for @", h, post_link>>,
                       sorted_dates, counts)

\* generate_reposts_chart: the file it writes to static/reposts_chart.png
generate_reposts_chart(h, coll) ==
    LET repost_timestamps == IndexedAt(coll)
        dates == Dates(repost_timestamps)
        sorted_dates == Sorted(CounterKeys(dates))
        counts == Counts(dates, sorted_dates)
    IN  generate_chart([i \in 1..Len(sorted_dates) |-> "#ff85c0"],
                       <<"Reposts Over Time for @", h>>,
                       sorted_dates, counts)

LikesPath == <<"static/likes_chart.png">>
RepostsPath == <<"static/reposts_chart.png">>

----------------------------------------------------------------------------
(* The remote API: what an outbound call can come back with *)

Jwts == {<<"jwt1">>, <<"jwt2">>}
AliceDid == <<"did:", "plc:a">>
AliceHandle == <<"alice.test">>

\* requests raised before any answer arrived (connection refused, DNS, ...)
TransportError == [kind |-> "transport_error"]
\* an answer with a status raise_for_status() rejects and != 200
HttpError == [kind |-> "answer", status_code |-> 500, valid_json |-> TRUE, json |-> EmptyDict]
\* a 200 answer whose body is the JSON object j
Ok(j) == [kind |-> "answer", status_code |-> 200, valid_json |-> TRUE, json |-> j]
\* a 200 answer whose body is not JSON
NotJson == [kind |-> "answer", status_code |-> 200, valid_json |-> FALSE, json |-> EmptyDict]

Failed(r) == r.kind = "transport_error" \/ r.status_code # 200

\* how a call ended, for the log of calls
Outcome(r) ==
    IF r.kind = "transport_error" THEN "transport_error"
    ELSE IF r.status_code # 200 THEN "http_error"
    ELSE IF ~r.valid_json THEN "not_json"
    ELSE "ok"

SessionResults ==
    {TransportError, HttpError, Ok(EmptyDict), Ok([accessJwt |-> EmptyStr])}
      \cup {Ok([accessJwt |-> j]) : j \in Jwts}

ResolveResults ==
    {TransportError, HttpError, Ok(EmptyDict), Ok([did |-> EmptyStr]), Ok([did |-> AliceDid])}

ProfileResults ==
    {TransportError, HttpError, Ok(EmptyDict), Ok([handle |-> AliceHandle])}

FetchResults(key, colls) ==
    {TransportError, HttpError, NotJson, Ok(EmptyDict)} \cup {Ok(key :> c) : c \in colls}

\* the requests and the answers of the remote API, one request at a time
PipelineEnv ==
    [bodies  |-> Bodies,
     session |-> SessionResults,
     resolve |-> ResolveResults,
     profile |-> ProfileResults,
     reposts |-> FetchResults("repostedBy", SeqUpTo(Events, MaxEvents)),
     likes   |-> FetchResults("likes", SeqUpTo(Events, MaxEvents))]

\* the requests and the answers of the remote API while two requests interleave
RaceEnv ==
    [bodies  |-> {[link |-> HandleLink], [link |-> DidLink]},
     session |-> {Ok(EmptyDict)} \cup {Ok([accessJwt |-> j]) : j \in Jwts},
     resolve |-> {Ok([did |-> AliceDid])},
     profile |-> {Ok([handle |-> AliceHandle])},
     reposts |-> {HttpError, Ok([repostedBy |-> <<WithStamp(Stamp(2024, 1, 1, 10))>>])},
     likes   |-> {HttpError, Ok([likes |-> <<WithStamp(Stamp(2024, 1, 1, 10))>>])}]

\* a call as sent: the endpoint, the bearer of its Authorization header, its
\* query parameter (handle, actor or uri), and how it ended
Call(ep, bearer, param, r) ==
    [ep |-> ep, bearer |-> bearer, param |-> param, outcome |-> Outcome(r)]

AuthenticatedEps == {"resolveHandle", "getProfile", "getRepostedBy", "getLikes"}
FetchEps == {"getRepostedBy", "getLikes"}

----------------------------------------------------------------------------
(* Responses of POST /generate *)

NoResponse == [status |-> 0, body |-> EmptyDict]

\* jsonify(body), status
Json(body, status) == [status |-> status, body |-> body]

AuthFailed == <<"Authentication failed. Check your username and password.">>
TokenMissing == <<"Access token not retrieved.">>
ConnectionFailed == <<"ConnectionError">>
JsonDecodeFailed == <<"JSONDecodeError">>

\* the except clause of lines 315-317
ErrorResponse(msg) == Json([error |-> <<"Error generating charts: ">> \o msg], 500)

NoLinkResponse == Json([error |-> <<"No link provided">>], 400)
InvalidLinkResponse == Json([error |-> <<"Invalid link format.">>], 400)

----------------------------------------------------------------------------
(* State after the module is loaded, and after __main__ has logged in *)

InitLocals ==
    /\ data = [t \in Threads |-> EmptyDict]
    /\ did = [t \in Threads |-> None]
    /\ handle = [t \in Threads |-> None]
    /\ post_id = [t \in Threads |-> None]
    /\ headers = [t \in Threads |-> None]
    /\ reposts = [t \in Threads |-> << >>]
    /\ likes = [t \in Threads |-> << >>]

Init ==
    /\ access_token \in {None} \cup Jwts
    /\ static = [likes |-> NoFile, reposts |-> NoFile]
    /\ pc = [t \in Threads |-> "idle"]
    /\ InitLocals
    /\ response = [t \in Threads |-> NoResponse]
    /\ calls = [t \in Threads |-> {}]
    /\ rendered = [t \in Threads |-> {}]

\* the handler returns: nothing else of the request changes
Return(t, resp) ==
    /\ response' = [response EXCEPT ![t] = resp]
    /\ pc' = [pc EXCEPT ![t] = "done"]

Goto(t, label) ==
    /\ pc' = [pc EXCEPT ![t] = label]
    /\ UNCHANGED response

Log(t, c) == calls' = [calls EXCEPT ![t] = @ \cup {c}]

----------------------------------------------------------------------------
(* generate_charts, lines 256-317, one action per remote call *)

AlwaysLogin(token) == TRUE
NeverLogin(token) == FALSE

\* `if not access_token:`   (line 261)
NeedsLogin(token) == ~Truthy(token)

\* a request arrives; the handler reads access_token    (lines 259-262)
Receive(t, env) ==
    /\ pc[t] = "idle"
    /\ \E body \in env.bodies : data' = [data EXCEPT ![t] = body]
    /\ pc' = [pc EXCEPT ![t] = IF NeedsLogin(access_token) THEN "login" ELSE "parse"]
    /\ UNCHANGED <<access_token, static, did, handle, post_id, headers, reposts, likes,
                   response, calls, rendered>>

\* get_access_token up to the assignment of line 37
CreateSession(t, env) ==
    /\ pc[t] = "login"
    /\ \E r \in env.session :
        /\ Log(t, Call("createSession", EmptyStr, None, r))
        /\ IF Failed(r)
           THEN \* RequestException -> Exception("Authentication failed...") -> line 315
                /\ Return(t, ErrorResponse(AuthFailed))
                /\ UNCHANGED access_token
           ELSE /\ access_token' = Get(r.json, "accessJwt", None)
                /\ Goto(t, "login_check")
    /\ UNCHANGED <<static, locals, rendered>>

\* `if not access_token: raise ValueError`   (lines 38-40), the global read again
LoginCheck(t) ==
    /\ pc[t] = "login_check"
    /\ IF ~Truthy(access_token)
       THEN Return(t, ErrorResponse(TokenMissing))
       ELSE Goto(t, "parse")
    /\ UNCHANGED <<access_token, static, locals, calls, rendered>>

\* lines 264-285
Parse(t) ==
    /\ pc[t] = "parse"
    /\ IF data[t] = EmptyDict \/ ~Has(data[t], "link")
       THEN Return(t, NoLinkResponse) /\ UNCHANGED <<did, handle, post_id>>
       ELSE LET link == Strip(data[t].link)
                did_in_profile_match == DidInProfileMatch(link)
                wm == WebMatch(link)
            IN  IF did_in_profile_match.matched
                THEN /\ did' = [did EXCEPT ![t] = did_in_profile_match.groups[1]]
                     /\ post_id' = [post_id EXCEPT ![t] = did_in_profile_match.groups[2]]
                     /\ Goto(t, "get_profile")
                     /\ UNCHANGED handle
                ELSE IF wm.matched
                THEN /\ handle' = [handle EXCEPT ![t] = wm.groups[1]]
                     /\ post_id' = [post_id EXCEPT ![t] = wm.groups[2]]
                     /\ Goto(t, "resolve_did")
                     /\ UNCHANGED did
                ELSE Return(t, InvalidLinkResponse) /\ UNCHANGED <<did, handle, post_id>>
    /\ UNCHANGED <<access_token, static, data, headers, reposts, likes, calls, rendered>>

\* what resolve_did returns for the answer r   (lines 57-68)
ResolvedDid(r) ==
    IF Failed(r) THEN None
    ELSE IF Truthy(Get(r.json, "did", None)) THEN r.json.did ELSE None

\* resolve_did(handle), lines 46-68; the bearer is the global read at line 49
ResolveDid(t, env) ==
    /\ pc[t] = "resolve_did"
    /\ \E r \in env.resolve :
        /\ Log(t, Call("resolveHandle", access_token, handle[t], r))
        /\ did' = [did EXCEPT ![t] = ResolvedDid(r)]
    /\ Goto(t, "headers")
    /\ UNCHANGED <<access_token, static, data, handle, post_id, headers, reposts,
                   likes, rendered>>

\* what fetch_username_from_did returns for the answer r   (lines 76-82)
FetchedHandle(r) == IF Failed(r) THEN None ELSE Get(r.json, "handle", None)

\* fetch_username_from_did(API_URL, access_token, did), lines 71-82 and 280
FetchUsername(t, env) ==
    /\ pc[t] = "get_profile"
    /\ \E r \in env.profile :
        /\ Log(t, Call("getProfile", access_token, did[t], r))
        /\ handle' = [handle EXCEPT ![t] = FetchedHandle(r)]
    /\ Goto(t, "headers")
    /\ UNCHANGED <<access_token, static, data, did, post_id, headers, reposts,
                   likes, rendered>>

\* f"at://{did}/app.bsky.feed.post/{post_id}"   (line 287)
AtUri(d, p) == <<"at:", "/", "/">> \o d \o <<"/", "app.bsky.feed.post", "/">> \o p

\* lines 287-288: the Authorization header is built from the global
BuildHeaders(t) ==
    /\ pc[t] = "headers"
    /\ headers' = [headers EXCEPT ![t] = access_token]
    /\ Goto(t, "fetch_reposts")
    /\ UNCHANGED <<access_token, static, data, did, handle, post_id, reposts, likes,
                   calls, rendered>>

\* r.json().get(key, []) if r.status_code == 200 else []   (lines 294 and 300)
Collection(r, key) == IF r.status_code = 200 THEN Get(r.json, key, << >>) ELSE << >>

\* requests.get raised, or .json() raised on a 200 answer: control leaves for line 315
Raises(r) == r.kind = "transport_error" \/ (r.status_code = 200 /\ ~r.valid_json)

Raised(r) == IF r.kind = "transport_error" THEN ConnectionFailed ELSE JsonDecodeFailed

\* lines 290-294
FetchReposts(t, env) ==
    /\ pc[t] = "fetch_reposts"
    /\ \E r \in env.reposts :
        /\ Log(t, Call("getRepostedBy", headers[t], AtUri(did[t], post_id[t]), r))
        /\ IF Raises(r)
           THEN Return(t, ErrorResponse(Raised(r))) /\ UNCHANGED reposts
           ELSE /\ reposts' = [reposts EXCEPT ![t] = Collection(r, "repostedBy")]
                /\ Goto(t, "fetch_likes")
    /\ UNCHANGED <<access_token, static, data, did, handle, post_id, headers, likes,
                   rendered>>

\* lines 296-300
FetchLikes(t, env) ==
    /\ pc[t] = "fetch_likes"
    /\ \E r \in env.likes :
        /\ Log(t, Call("getLikes", headers[t], AtUri(did[t], post_id[t]), r))
        /\ IF Raises(r)
           THEN Return(t, ErrorResponse(Raised(r))) /\ UNCHANGED likes
           ELSE /\ likes' = [likes EXCEPT ![t] = Collection(r, "likes")]
                /\ Goto(t, "charts")
    /\ UNCHANGED <<access_token, static, data, did, handle, post_id, headers, reposts,
                   rendered>>

NeverChart(coll, path) == None
AlwaysChart(coll, path) == path

\* `<generate the chart> if likes else None`   (lines 305 and 306)
ChartPath(coll, path) == IF coll # << >> THEN path ELSE None

\* lines 308-312
ResponseBody(likes_chart_path, reposts_chart_path) ==
    (IF Truthy(likes_chart_path) THEN [likes_chart |-> likes_chart_path] ELSE EmptyDict)
      @@ (IF Truthy(reposts_chart_path)
          THEN [reposts_chart |-> reposts_chart_path] ELSE EmptyDict)

\* lines 302-314
Charts(t) ==
    /\ pc[t] = "charts"
    /\ LET post_link == PostLink(handle[t], post_id[t])
           likes_timestamps == IndexedAt(likes[t])
           likes_chart_path == ChartPath(likes[t], LikesPath)
           reposts_chart_path == ChartPath(reposts[t], RepostsPath)
       IN  /\ static' =
                [likes   |-> IF likes_chart_path # None
                             THEN generate_likes_chart(handle[t], likes_timestamps, post_link)
                             ELSE static.likes,
                 reposts |-> IF reposts_chart_path # None
                             THEN generate_reposts_chart(handle[t], reposts[t])
                             ELSE static.reposts]
           /\ rendered' = [rendered EXCEPT ![t] =
                             {k \in {"likes"} : likes_chart_path # None}
                               \cup {k \in {"reposts"} : reposts_chart_path # None}]
           /\ Return(t, Json(ResponseBody(likes_chart_path, reposts_chart_path), 200))
    /\ UNCHANGED <<access_token, locals, calls>>

\* the response has gone out; the request's locals are dropped
Finish(t) ==
    /\ pc[t] = "done"
    /\ pc' = [pc EXCEPT ![t] = "idle"]
    /\ data' = [data EXCEPT ![t] = EmptyDict]
    /\ did' = [did EXCEPT ![t] = None]
    /\ handle' = [handle EXCEPT ![t] = None]
    /\ post_id' = [post_id EXCEPT ![t] = None]
    /\ headers' = [headers EXCEPT ![t] = None]
    /\ reposts' = [reposts EXCEPT ![t] = << >>]
    /\ likes' = [likes EXCEPT ![t] = << >>]
    /\ response' = [response EXCEPT ![t] = NoResponse]
    /\ calls' = [calls EXCEPT ![t] = {}]
    /\ rendered' = [rendered EXCEPT ![t] = {}]
    /\ UNCHANGED <<access_token, static>>

----------------------------------------------------------------------------
(* Specifications *)

\* a worker that handles one request at a time takes the next one when it is free
Accept(t) ==
    /\ \A u \in Threads : pc[u] = "idle"
    /\ Receive(t, PipelineEnv)

Next ==
    \E t \in Threads :
        \/ Accept(t)
        \/ CreateSession(t, PipelineEnv)
        \/ LoginCheck(t)
        \/ Parse(t)
        \/ ResolveDid(t, PipelineEnv)
        \/ FetchUsername(t, PipelineEnv)
        \/ BuildHeaders(t)
        \/ FetchReposts(t, PipelineEnv)
        \/ FetchLikes(t, PipelineEnv)
        \/ Charts(t)
        \/ Finish(t)

Spec == Init /\ [][Next]_vars

\* a threaded server: the handlers of two requests interleave at every remote call
RaceNext ==
    \E t \in Threads :
        \/ Receive(t, RaceEnv)
        \/ CreateSession(t, RaceEnv)
        \/ LoginCheck(t)
        \/ Parse(t)
        \/ ResolveDid(t, RaceEnv)
        \/ FetchUsername(t, RaceEnv)
        \/ BuildHeaders(t)
        \/ FetchReposts(t, RaceEnv)
        \/ FetchLikes(t, RaceEnv)
        \/ Charts(t)
        \/ Finish(t)

RaceSpec == Init /\ [][RaceNext]_vars

\* the chart generators alone, on every collection up to MaxStamps records
BucketInit ==
    /\ access_token \in Jwts
    /\ static = [likes |-> NoFile, reposts |-> NoFile]
    /\ pc = [t \in Threads |-> IF t = "w1" THEN "bucket" ELSE "idle"]
    /\ data = [t \in Threads |-> EmptyDict]
    /\ did = [t \in Threads |-> None]
    /\ handle = [t \in Threads |-> None]
    /\ post_id = [t \in Threads |-> None]
    /\ headers = [t \in Threads |-> None]
    /\ \E c \in SeqUpTo(ChartEvents, MaxStamps) :
          \E k \in {"likes", "reposts"} :
            /\ likes = [t \in Threads |-> IF t = "w1" /\ k = "likes" THEN c ELSE << >>]
            /\ reposts = [t \in Threads |-> IF t = "w1" /\ k = "reposts" THEN c ELSE << >>]
    /\ response = [t \in Threads |-> NoResponse]
    /\ calls = [t \in Threads |-> {}]
    /\ rendered = [t \in Threads |-> {}]

\* generate_likes_chart(handle, likes_timestamps, post_link) on the thread's likes
ChartLikes(t) ==
    /\ pc[t] = "bucket"
    /\ "likes" \notin rendered[t]
    /\ static' = [static EXCEPT !.likes =
                    generate_likes_chart(handle[t], IndexedAt(likes[t]),
                                         PostLink(handle[t], post_id[t]))]
    /\ rendered' = [rendered EXCEPT ![t] = @ \cup {"likes"}]
    /\ UNCHANGED <<access_token, pc, locals, response, calls>>

\* generate_reposts_chart(handle, reposts) on the thread's reposts
ChartReposts(t) ==
    /\ pc[t] = "bucket"
    /\ "reposts" \notin rendered[t]
    /\ static' = [static EXCEPT !.reposts = generate_reposts_chart(handle[t], reposts[t])]
    /\ rendered' = [rendered EXCEPT ![t] = @ \cup {"reposts"}]
    /\ UNCHANGED <<access_token, pc, locals, response, calls>>

BucketNext == \E t \in Threads : ChartLikes(t) \/ ChartReposts(t)

BucketSpec == BucketInit /\ [][BucketNext]_vars

----------------------------------------------------------------------------
(* Properties *)

Sent(t, ep) == {c \in calls[t] : c.ep = ep}

Answered(t, ep, outcome) == \E c \in Sent(t, ep) : c.outcome = outcome

HasKey(t, key) == Has(response[t].body, key)

AuthErrors == {ErrorResponse(AuthFailed), ErrorResponse(TokenMissing)}

\* the request of t has been answered after likes came back with at least one
\* record and the reposts endpoint answered with a non-success status
RepostsFailedLikesOk(t) ==
    /\ pc[t] = "done"
    /\ Answered(t, "getRepostedBy", "http_error")
    /\ Answered(t, "getLikes", "ok")
    /\ likes[t] # << >>

LikesFailedRepostsOk(t) ==
    /\ pc[t] = "done"
    /\ Answered(t, "getLikes", "http_error")
    /\ Answered(t, "getRepostedBy", "ok")
    /\ reposts[t] # << >>

\* C1: when the reposts endpoint answers with a non-success status and the likes
\* endpoint succeeds with at least one like, the response is a success that has
\* likes_chart and has no reposts_chart; and the same with the two kinds exchanged.
C1_FailSoftIsolation ==
    \A t \in Threads :
        /\ RepostsFailedLikesOk(t) =>
              /\ response[t].status = 200
              /\ HasKey(t, "likes_chart")
              /\ ~HasKey(t, "reposts_chart")
        /\ LikesFailedRepostsOk(t) =>
              /\ response[t].status = 200
              /\ HasKey(t, "reposts_chart")
              /\ ~HasKey(t, "likes_chart")

C1_Witness ==
    \E t \in Threads :
        /\ RepostsFailedLikesOk(t)
        /\ response[t] = Json([likes_chart |-> LikesPath], 200)
        /\ static.likes.written

\* C2: a transport error on either engagement fetch does not abort the request:
\* both kinds are still fetched and the response is not an error response.
C2_TransportErrorIsSoft ==
    \A t \in Threads :
        (pc[t] = "done" /\ \E c \in calls[t] :
                              c.ep \in FetchEps /\ c.outcome = "transport_error")
          => /\ response[t].status = 200
             /\ ~HasKey(t, "error")
             /\ \A ep \in FetchEps : Sent(t, ep) # {}

\* C3: one request at a time, every authenticated remote call carries a non-empty
\* access_token, and a request whose authentication fails makes no such call.
C3_CredentialInvariant ==
    \A t \in Threads :
        /\ \A c \in calls[t] : c.ep \in AuthenticatedEps => Truthy(c.bearer)
        /\ response[t] \in AuthErrors
              => \A c \in calls[t] : c.ep \notin AuthenticatedEps

C3_Witness ==
    \E t \in Threads :
        /\ pc[t] = "done"
        /\ Answered(t, "createSession", "ok")
        /\ \A ep \in {"resolveHandle", "getRepostedBy", "getLikes"} :
              \E c \in Sent(t, ep) : c.bearer \in Jwts

\* the text holds the rendering of None
MentionsNone(s) == \E i \in 1..Len(s) : s[i] = None[1]

\* C4: no engagement fetch is sent for an actor reference that was not resolved:
\* the at:// resource string of a fetch never holds an unresolved actor.
C4_ActorResolvedBeforeFetch ==
    \A t \in Threads :
        \A c \in calls[t] : c.ep \in FetchEps => ~MentionsNone(c.param)

\* C5: while a credential is cached, no step of any request calls session
\* creation and no step changes the cached credential.
C5_IdempotentAuthentication ==
    [][Truthy(access_token) =>
          /\ access_token' = access_token
          /\ \A t \in Threads :
                {c \in calls'[t] : c.ep = "createSession"} \subseteq calls[t]]_vars

C5_Witness ==
    \E t \in Threads :
        /\ pc[t] = "done"
        /\ response[t].status = 200
        /\ Truthy(access_token)
        /\ Sent(t, "createSession") = {}
        /\ Sent(t, "getLikes") # {}

\* the request of t carried a link without /post/<id> or with an unsupported scheme
MalformedRequest(t) ==
    /\ pc[t] = "done"
    /\ Has(data[t], "link")
    /\ data[t].link \in MalformedLinks

\* C6 as stated: every malformed link yields the 400 "Invalid link format."
\* response and no identity-resolution or fetch call.
C6_MalformedAlwaysInvalidLink ==
    \A t \in Threads :
        MalformedRequest(t) =>
            /\ response[t] = InvalidLinkResponse
            /\ \A c \in calls[t] : c.ep \notin AuthenticatedEps

\* C6 amended: a malformed link never reaches identity resolution or the fetch
\* stage; it yields the 400 "Invalid link format." response whenever the auth
\* check passes, and the 500 authentication error when no credential is cached
\* and session creation fails.
C6_MalformedNeverFetched ==
    \A t \in Threads :
        MalformedRequest(t) =>
            /\ \A c \in calls[t] : c.ep \notin AuthenticatedEps
            /\ IF Sent(t, "createSession") = {} \/ Truthy(access_token)
               THEN response[t] = InvalidLinkResponse
               ELSE response[t] \in AuthErrors

C6_Witness ==
    \E t \in Threads :
        /\ MalformedRequest(t)
        /\ data[t].link = NoPostIdLink
        /\ response[t] = InvalidLinkResponse

\* both fetches of the request of t were answered and both collections are empty
BothEmpty(t) ==
    /\ pc[t] = "done"
    /\ \A ep \in FetchEps : \E c \in Sent(t, ep) : c.outcome \in {"ok", "http_error"}
    /\ likes[t] = << >>
    /\ reposts[t] = << >>

\* C7: when both collections come back empty the response is a success whose
\* body is the empty object, and no chart is rendered.
C7_EmptyEngagementIsSuccess ==
    \A t \in Threads :
        BothEmpty(t) => response[t] = Json(EmptyDict, 200) /\ rendered[t] = {}

C7_Witness ==
    \E t \in Threads :
        /\ BothEmpty(t)
        /\ Answered(t, "getLikes", "ok")
        /\ Answered(t, "getRepostedBy", "ok")

\* C8: a chart of a kind is rendered, and its key returned, only when the list
\* of timestamps extracted for that kind is not empty.
C8_NoChartWithoutTimestamps ==
    \A t \in Threads :
        pc[t] = "done" =>
            /\ (HasKey(t, "likes_chart") \/ "likes" \in rendered[t])
                  => IndexedAt(likes[t]) # << >>
            /\ (HasKey(t, "reposts_chart") \/ "reposts" \in rendered[t])
                  => IndexedAt(reposts[t]) # << >>

RECURSIVE Sum(_)
Sum(s) == IF s = << >> THEN 0 ELSE Head(s) + Sum(Tail(s))

DayOf(d) == <<d.year, d.month, d.day>>

\* before, in the calendar
DayBefore(a, b) ==
    \/ a[1] < b[1]
    \/ a[1] = b[1] /\ a[2] < b[2]
    \/ a[1] = b[1] /\ a[2] = b[2] /\ a[3] < b[3]

\* the chart is the daily bucketing of the timestamps
Bucketed(chart, timestamps) ==
    LET days == [i \in 1..Len(chart.dates) |-> DayOf(chart.dates[i])]
    IN  /\ Len(chart.counts) = Len(chart.dates)
        /\ \A i \in 1..Len(days) : \A j \in 1..Len(days) :
              i < j => DayBefore(days[i], days[j])
        /\ {days[i] : i \in 1..Len(days)}
              = {timestamps[i].date : i \in 1..Len(timestamps)}
        /\ \A i \in 1..Len(days) :
              chart.counts[i] =
                  Cardinality({j \in 1..Len(timestamps) : timestamps[j].date = days[i]})
        /\ Sum(chart.counts) = Len(timestamps)

ExampleStamps ==
    <<Stamp(2024, 1, 1, 10), Stamp(2024, 1, 1, 23), Stamp(2024, 1, 2, 0)>>

ExampleLikes == [i \in 1..3 |-> WithStamp(ExampleStamps[i])]

\* C9: the dates of a chart are strictly increasing, are exactly the date parts
\* of the input timestamps, each count is the number of timestamps of that date,
\* and the counts sum to the number of timestamps; the three timestamps of the
\* example give (2024-01-01, 2), (2024-01-02, 1).
C9_TimeBucketing ==
    \A t \in Threads :
        /\ "likes" \in rendered[t] =>
              /\ Bucketed(static.likes, IndexedAt(likes[t]))
              /\ likes[t] = ExampleLikes =>
                    /\ [i \in 1..2 |-> DayOf(static.likes.dates[i])]
                          = <<<<2024, 1, 1>>, <<2024, 1, 2>>>>
                    /\ static.likes.counts = <<2, 1>>
        /\ "reposts" \in rendered[t] =>
              Bucketed(static.reposts, IndexedAt(reposts[t]))

C9_Witness ==
    \E t \in Threads :
        /\ "likes" \in rendered[t]
        /\ likes[t] = <<ExampleLikes[3], ExampleLikes[1], ExampleLikes[2]>>
        /\ static.likes.counts = <<2, 1>>

\* the request of t is past its own authentication
PassedAuth(t) == pc[t] \notin {"idle", "login", "login_check"}

\* C10: when two requests race to authenticate, no authenticated call of a
\* request that passed its own authentication carries an empty credential.
C10_RaceIsHarmless ==
    \A t \in Threads :
        PassedAuth(t) =>
            \A c \in calls[t] : c.ep \in AuthenticatedEps => Truthy(c.bearer)

====
